---- MODULE Spec2Model ----
(***************************************************************************)
(* Model of src/Part_3_and_4/data_quality_checks_and_batch_loading.py:     *)
(* the transform (DataTransformer._initial_prep followed by the eight      *)
(* detectors of DataQualityChecker.perform_checks), the three projections  *)
(* of BatchDataLoader, the chunked load and the orchestration of           *)
(* ETLPipeline.run.                                                        *)
(*                                                                         *)
(* Representation.  A nullable value is a set: {} is null (None / NaN) and *)
(* {v} is the value v.  A string that the code inspects character by       *)
(* character (the date) is a sequence of one-character strings.  Money is  *)
(* an integer number of cents, so price 25.0 is 2500 and the threshold     *)
(* 0.01 is 1.  A DataFrame is a sequence of rows plus the set of its       *)
(* column names; access to a column that is not there raises KeyError.     *)
(***************************************************************************)
EXTENDS Integers, Sequences, FiniteSets, TLC

Null == {}

Some(v) == {v}

IsNull(o) == o = {}

Val(o) == CHOOSE v \in o : TRUE

(***************************************************************************)
(* Character helpers.                                                      *)
(***************************************************************************)
Digits == {"0", "1", "2", "3", "4", "5", "6", "7", "8", "9"}

Letters == {"a", "d", "e", "n", "o", "t"}

DigitVal(c) ==
  CASE c = "0" -> 0 [] c = "1" -> 1 [] c = "2" -> 2 [] c = "3" -> 3
    [] c = "4" -> 4 [] c = "5" -> 5 [] c = "6" -> 6 [] c = "7" -> 7
    [] c = "8" -> 8 [] c = "9" -> 9

DigitChar(n) ==
  CASE n = 0 -> "0" [] n = 1 -> "1" [] n = 2 -> "2" [] n = 3 -> "3"
    [] n = 4 -> "4" [] n = 5 -> "5" [] n = 6 -> "6" [] n = 7 -> "7"
    [] n = 8 -> "8" [] n = 9 -> "9"

IsDigit(c) == c \in Digits

IsLetter(c) == c \in Letters

IsSpace(c) == c = " "

Tail2(s, k) == SubSeq(s, k + 1, Len(s))

\* the largest value of a C int, the type datetime takes its fields in
MaxCInt == 2147483647

MaxCIntDigits == <<"2", "1", "4", "7", "4", "8", "3", "6", "4", "7">>

RECURSIVE StripZeros(_)
StripZeros(tok) == IF tok # <<>> /\ tok[1] = "0" THEN StripZeros(Tail(tok)) ELSE tok

\* a > b for digit strings of the same length
RECURSIVE DigitsGreater(_, _)
DigitsGreater(a, b) ==
  IF a = <<>> THEN FALSE
  ELSE IF a[1] # b[1] THEN DigitVal(a[1]) > DigitVal(b[1])
  ELSE DigitsGreater(Tail(a), Tail(b))

\* int(tok) > MaxCInt, decided on the digits
ExceedsCInt(tok) ==
  LET sig == StripZeros(tok)
  IN Len(sig) > Len(MaxCIntDigits)
       \/ (Len(sig) = Len(MaxCIntDigits) /\ DigitsGreater(sig, MaxCIntDigits))

\* int(tok); a value above MaxCInt is kept as MaxCInt and marked where it is
\* stored (YmdAppend)
RECURSIVE NumVal(_)
NumVal(tok) ==
  IF tok = <<>> THEN 0
  ELSE IF ExceedsCInt(tok) THEN MaxCInt
  ELSE 10 * NumVal(SubSeq(tok, 1, Len(tok) - 1)) + DigitVal(tok[Len(tok)])

IsNumTok(tok) == tok # <<>> /\ \A k \in 1..Len(tok) : IsDigit(tok[k])

\* two decimal digits, zero padded (the %m and %d of strftime)
Pad2(n) == <<DigitChar((n \div 10) % 10), DigitChar(n % 10)>>

\* four decimal digits, zero padded (the %Y of strftime)
Pad4(n) == <<DigitChar((n \div 1000) % 10), DigitChar((n \div 100) % 10)>> \o Pad2(n % 100)

(***************************************************************************)
(* str.strip(): leading and trailing whitespace removed.                   *)
(***************************************************************************)
RECURSIVE LStrip(_)
LStrip(s) == IF s # <<>> /\ IsSpace(s[1]) THEN LStrip(Tail(s)) ELSE s

RECURSIVE RStrip(_)
RStrip(s) ==
  IF s # <<>> /\ IsSpace(s[Len(s)]) THEN RStrip(SubSeq(s, 1, Len(s) - 1)) ELSE s

Strip(s) == RStrip(LStrip(s))

(***************************************************************************)
(* re.sub(r'(\d{2})\s+(\d{2})([-/\s])', r'\1\2\3', s): leftmost,           *)
(* non-overlapping; a match drops the whitespace run between two digit     *)
(* pairs that are followed by '-', '/' or whitespace.                      *)
(***************************************************************************)
RECURSIVE SpaceRun(_)
SpaceRun(s) == IF s # <<>> /\ IsSpace(s[1]) THEN 1 + SpaceRun(Tail(s)) ELSE 0

IsYearSep(c) == c \in {"-", "/", " "}

\* length of the match of the split-year pattern at the head of s, 0 if none
\* (the whitespace run is taken whole: a shorter run is followed by
\* whitespace, never by the second digit pair)
SplitYearMatch(s) ==
  IF Len(s) >= 4 /\ IsDigit(s[1]) /\ IsDigit(s[2]) /\ IsSpace(s[3])
  THEN LET w == SpaceRun(Tail2(s, 2))
       IN IF /\ Len(s) >= 2 + w + 3
             /\ IsDigit(s[2 + w + 1]) /\ IsDigit(s[2 + w + 2])
             /\ IsYearSep(s[2 + w + 3])
          THEN w + 5 ELSE 0
  ELSE 0

RECURSIVE JoinSplitYear(_)
JoinSplitYear(s) ==
  IF s = <<>> THEN <<>>
  ELSE LET m == SplitYearMatch(s)
       IN IF m = 0 THEN <<s[1]>> \o JoinSplitYear(Tail(s))
          ELSE <<s[1], s[2], s[m - 2], s[m - 1], s[m]>> \o JoinSplitYear(Tail2(s, m))

(***************************************************************************)
(* re.sub(r'\s+', '-', s): every whitespace run becomes one hyphen.        *)
(***************************************************************************)
RECURSIVE SpacesToHyphen(_)
SpacesToHyphen(s) ==
  IF s = <<>> THEN <<>>
  ELSE IF IsSpace(s[1]) THEN <<"-">> \o SpacesToHyphen(Tail2(s, SpaceRun(s)))
  ELSE <<s[1]>> \o SpacesToHyphen(Tail(s))

(***************************************************************************)
(* dateutil.parser.parse(s, fuzzy=True, ignoretz=True), for strings over   *)
(* digits, letters, ' ', '-' and '/' whose words are not month, weekday or *)
(* time-unit names, and that carry a full numeric date (three numbers,     *)
(* the year written with four digits) or no date at all.  Two-digit years  *)
(* and dates with one or two numbers are completed by dateutil from the    *)
(* clock; no input of the model has that form.                             *)
(***************************************************************************)
\* the parse state after an error (ValueError / IndexError inside _parse)
Fail == [ymd |-> <<>>, ystridx |-> -1, hour |-> FALSE, big |-> FALSE]

\* no date: the parse raised ValueError
NoDate == <<0, 0, 0>>

\* the parse raised OverflowError: datetime.replace was handed a field
\* above MaxCInt
Overflow == <<-1, -1, -1>>

\* length of the first token: a digit run, a letter run, or one other char
RECURSIVE RunLen(_, _)
RunLen(s, cls) ==
  IF s # <<>> /\ ((cls = "d" /\ IsDigit(s[1])) \/ (cls = "w" /\ IsLetter(s[1])))
  THEN 1 + RunLen(Tail(s), cls) ELSE 0

RECURSIVE Lex(_)
Lex(s) ==
  IF s = <<>> THEN <<>>
  ELSE LET k == IF IsDigit(s[1]) THEN RunLen(s, "d")
                ELSE IF IsLetter(s[1]) THEN RunLen(s, "w") ELSE 1
       IN <<SubSeq(s, 1, k)>> \o Lex(Tail2(s, k))

\* parserinfo.JUMP, restricted to the tokens the lexer can produce here
IsJump(tok) == tok \in {<<" ">>, <<"-">>, <<"/">>, <<"a", "t">>, <<"o", "n">>,
                        <<"a", "n", "d">>, <<"a", "d">>, <<"t">>, <<"n", "d">>}

\* parserinfo.AMPM
IsAmPm(tok) == tok = <<"a">>

IsDateSep(tok) == tok \in {<<"-">>, <<"/">>}

\* _ymd.append: a value is labelled as the year when it is a string of more
\* than two digits (asStr) or a number above 100; a second year is an error
YmdAppend(acc, tok, asStr) ==
  IF acc = Fail \/ ~IsNumTok(tok) THEN Fail
  ELSE LET isY == IF asStr THEN Len(tok) > 2 ELSE NumVal(tok) > 100
       IN IF isY /\ acc.ystridx # 0 THEN Fail
          ELSE [acc EXCEPT !.ymd = Append(@, NumVal(tok)),
                           !.ystridx = IF isY THEN Len(acc.ymd) + 1 ELSE @,
                           !.big = @ \/ ExceedsCInt(tok)]

\* _ymd.could_be_day
CouldBeDay(acc, v) == v >= 1 /\ v <= 31

\* parser._parse: one pass over the tokens; acc holds the collected
\* year/month/day members, the index of the labelled year and the hour flag
RECURSIVE ParseTokens(_, _, _)
ParseTokens(l, i, acc) ==
  IF acc = Fail THEN Fail
  ELSE IF i > Len(l) THEN acc
  ELSE LET tok  == l[i]
           n    == Len(l)
           lenT == Len(tok)
       IN IF IsNumTok(tok) THEN
            \* _parse_numeric_token
            IF Len(acc.ymd) = 3 /\ lenT \in {2, 4} /\ ~acc.hour
            THEN ParseTokens(l, i + 1, [acc EXCEPT !.hour = TRUE])
            ELSE IF lenT = 6
            THEN IF acc.ymd = <<>>
                 THEN ParseTokens(l, i + 1,
                        YmdAppend(YmdAppend(YmdAppend(acc, SubSeq(tok, 1, 2), TRUE),
                                            SubSeq(tok, 3, 4), TRUE),
                                  SubSeq(tok, 5, 6), TRUE))
                 ELSE ParseTokens(l, i + 1, [acc EXCEPT !.hour = TRUE])
            ELSE IF lenT \in {8, 12, 14}
            THEN ParseTokens(l, i + 1,
                   [YmdAppend(YmdAppend(YmdAppend(acc, SubSeq(tok, 1, 4), TRUE),
                                        SubSeq(tok, 5, 6), TRUE),
                              SubSeq(tok, 7, 8), TRUE)
                      EXCEPT !.hour = @ \/ lenT > 8])
            ELSE IF i + 1 <= n /\ IsDateSep(l[i + 1])
            THEN \* 01-01[-01]
                 LET a1 == YmdAppend(acc, tok, TRUE)
                 IN IF i + 2 <= n /\ ~IsJump(l[i + 2])
                    THEN LET a2 == YmdAppend(a1, l[i + 2], TRUE)
                         IN IF i + 3 <= n /\ l[i + 3] = l[i + 1]
                            THEN IF i + 4 <= n
                                 THEN ParseTokens(l, i + 5, YmdAppend(a2, l[i + 4], TRUE))
                                 ELSE Fail
                            ELSE ParseTokens(l, i + 3, a2)
                    ELSE ParseTokens(l, i + 2, a1)
            ELSE IF i + 1 > n \/ IsJump(l[i + 1])
            THEN IF i + 2 <= n /\ IsAmPm(l[i + 2])
                 THEN ParseTokens(l, i + 3, [acc EXCEPT !.hour = TRUE])
                 ELSE ParseTokens(l, i + 2, YmdAppend(acc, tok, FALSE))
            ELSE IF IsAmPm(l[i + 1]) /\ NumVal(tok) < 24
            THEN ParseTokens(l, i + 2, [acc EXCEPT !.hour = TRUE])
            ELSE IF CouldBeDay(acc, NumVal(tok))
            THEN ParseTokens(l, i + 1, YmdAppend(acc, tok, FALSE))
            ELSE ParseTokens(l, i + 1, acc)
          ELSE IF acc.hour /\ tok = <<"-">>
          THEN \* a UTC offset after a time
               IF i + 1 > n \/ ~IsNumTok(l[i + 1]) THEN Fail
               ELSE IF Len(l[i + 1]) \in {1, 2, 4} THEN ParseTokens(l, i + 2, acc)
               ELSE Fail
          ELSE \* fuzzy: any other token is skipped
               ParseTokens(l, i + 1, acc)

IsLeap(y) == (y % 4 = 0 /\ y % 100 # 0) \/ y % 400 = 0

DaysIn(y, m) ==
  IF m = 2 THEN (IF IsLeap(y) THEN 29 ELSE 28)
  ELSE IF m \in {4, 6, 9, 11} THEN 30 ELSE 31

\* datetime's range check of a (year, month, day)
ValidDate(d) ==
  /\ d[1] >= 1 /\ d[1] <= 9999
  /\ d[2] >= 1 /\ d[2] <= 12
  /\ d[3] >= 1 /\ d[3] <= DaysIn(d[1], d[2])

\* _ymd.resolve_ymd for three numeric members (yearfirst = dayfirst = False)
ResolveYmd(acc) ==
  LET y == acc.ymd
  IN IF acc.ystridx = 1 \/ y[1] > 31 THEN <<y[1], y[2], y[3]>>
     ELSE IF y[1] > 12 THEN <<y[3], y[2], y[1]>>
     ELSE <<y[3], y[1], y[2]>>

\* the (year, month, day) of the tolerant parse, NoDate when it raises
\* ValueError, Overflow when it raises OverflowError
TolerantParse(s) ==
  LET acc == ParseTokens(Lex(s), 1,
                         [ymd |-> <<>>, ystridx |-> 0, hour |-> FALSE, big |-> FALSE])
  IN IF acc = Fail \/ Len(acc.ymd) > 3 THEN NoDate
     ELSE IF acc.big THEN Overflow
     ELSE IF Len(acc.ymd) # 3 THEN NoDate
     ELSE LET d == ResolveYmd(acc)
          IN IF ValidDate(d) THEN d ELSE NoDate

\* strftime("%Y-%m-%d")
FormatDate(d) == Pad4(d[1]) \o <<"-">> \o Pad2(d[2]) \o <<"-">> \o Pad2(d[3])

(***************************************************************************)
(* DataTransformer.standardize_date on a nullable string.                  *)
(***************************************************************************)
\* the first try catches (ValueError, TypeError) only: an OverflowError of
\* the first parse leaves standardize_date as an exception
standardize_date_raises(date_str) ==
  ~IsNull(date_str) /\ TolerantParse(Strip(Val(date_str))) = Overflow

\* the value standardize_date returns when it returns; the second try
\* catches every Exception
standardize_date(date_str) ==
  IF IsNull(date_str) THEN Null
  ELSE LET s1 == Strip(Val(date_str))
           p1 == TolerantParse(s1)
       IN IF p1 \notin {NoDate, Overflow} THEN Some(FormatDate(p1))
          ELSE LET s2 == SpacesToHyphen(JoinSplitYear(s1))
                   p2 == TolerantParse(s2)
               IN IF p2 \notin {NoDate, Overflow} THEN Some(FormatDate(p2)) ELSE Null

(***************************************************************************)
(* Input records.  A raw record has the scalar keys transaction_id,        *)
(* customer_id, quantity, date and region (each possibly null) and a       *)
(* product that is absent, null, or a mapping with some of the keys id,    *)
(* name, category, price.  A raw price is a number, a numeric string, a    *)
(* non-numeric string or null.                                             *)
(***************************************************************************)
Num(n) == [t |-> "num", n |-> n]

NumStr(n) == [t |-> "numstr", n |-> n]

BadStr == [t |-> "str", n |-> 0]

NoPrice == [t |-> "null", n |-> 0]

ProductKeys == {"id", "name", "category", "price"}

Product(keys, id, name, category, price) ==
  [shape |-> "dict", keys |-> keys, id |-> id, name |-> name,
   category |-> category, price |-> price]

ProductAbsent ==
  [shape |-> "absent", keys |-> {}, id |-> Null, name |-> Null,
   category |-> Null, price |-> NoPrice]

ProductNull ==
  [shape |-> "null", keys |-> {}, id |-> Null, name |-> Null,
   category |-> Null, price |-> NoPrice]

Record(t, c, p, q, d, r) ==
  [transaction_id |-> t, customer_id |-> c, product |-> p, quantity |-> q,
   date |-> d, region |-> r]

DateIso == <<"2", "0", "2", "3", "-", "0", "1", "-", "0", "5">>

DateUs == <<"0", "1", "/", "0", "5", "/", "2", "0", "2", "3">>

DateSplit == <<"2", "0", " ", "2", "3", "-", "0", "7", "-", "2", "2">>

DateBad == <<"n", "o", "t", " ", "a", " ", "d", "a", "t", "e">>

Mouse == Product(ProductKeys, Some("P01"), Some("Mouse"), Some("Accessories"), Num(2500))

\* the product of Mouse at another price
MouseRepriced == Product(ProductKeys, Some("P01"), Some("Mouse"), Some("Accessories"), Num(1999))

Keyboard == Product(ProductKeys, Some("P04"), Some("Keyboard"), Some("Accessories"), NumStr(4999))

\* the record of the end-to-end scenario
RecScenario == Record(Some("T001"), Null, Mouse, Some(-3), Some(DateIso), Some("North"))

Records ==
  { RecScenario,
    Record(Some("T002"), Some("C001"), MouseRepriced, Some(2), Some(DateUs), Some("South")),
    Record(Some("T003"), Some("C002"), Keyboard, Some(1001), Some(DateBad), Some("East")),
    Record(Some("T001"), Some("C001"),
           Product(ProductKeys, Some("P02"), Some("Laptop"), Null, Num(10000)),
           Some(1000), Some(DateSplit), Some("West")),
    Record(Null, Some("C001"),
           Product(ProductKeys, Null, Some("Monitor"), Some("Displays"), BadStr),
           Null, Null, Null),
    Record(Some("T006"), Some("C002"), ProductAbsent, Some(1), Some(DateIso), Some("North")),
    Record(Some("T007"), Null, ProductNull, Some(-1), Some(DateIso), Some("South")),
    Record(Some("T008"), Some("C001"),
           Product({"name", "category", "price"}, Null, Some("Cable"), Some("Accessories"), Num(0)),
           Some(2), Some(DateIso), Some("East")),
    Record(Some("T009"), Some("C002"),
           Product({"id", "name", "price"}, Some("P09"), Some("Hub"), Null, Num(1599)),
           Some(0), Some(DateUs), Some("West")),
    Record(Some("T010"), Some("C001"),
           Product({"id", "category", "price"}, Some("P10"), Null, Some("Audio"), Num(10000001)),
           Some(1), Some(DateIso), Some("North")),
    Record(Some("T011"), Some("C002"),
           Product({"id", "name", "category"}, Some("P11"), Some("Printer"), Some("Office"), NoPrice),
           Some(1), Some(DateIso), Some("South")) }

\* the largest number of records of an input file
MaxRecords == 3

\* the largest batch size the run is started with
MaxBatchSize == 2

RECURSIVE SeqsUpTo(_, _)
SeqsUpTo(S, n) ==
  IF n = 0 THEN {<<>>}
  ELSE LET shorter == SeqsUpTo(S, n - 1)
       IN shorter \cup {Append(q, x) : q \in {r \in shorter : Len(r) = n - 1}, x \in S}

Batches == SeqsUpTo(Records, MaxRecords)

\* the input file: missing, unparsable, or a JSON array of records
InputFiles ==
  {[status |-> "missing", content |-> <<>>], [status |-> "malformed", content |-> <<>>]}
    \cup {[status |-> "ok", content |-> b] : b \in Batches}

(***************************************************************************)
(* pd.json_normalize: scalar keys become columns; a mapping is flattened   *)
(* into 'product.<key>' columns; a non-mapping product stays in a          *)
(* 'product' column; an absent product adds no column.                     *)
(***************************************************************************)
ScalarCols == {"transaction_id", "customer_id", "quantity", "date", "region"}

DottedCols(data) ==
  {k \in ProductKeys :
     \E i \in 1..Len(data) : data[i].product.shape = "dict" /\ k \in data[i].product.keys}

HasProductCol(data) == \E i \in 1..Len(data) : data[i].product.shape = "null"

\* the value of column 'product.<k>' in the row of record rec
Dotted(rec, k) == rec.product.shape = "dict" /\ k \in rec.product.keys

\* pd.to_numeric(errors='coerce') on one raw price
to_numeric(p) == IF p.t \in {"num", "numstr"} THEN Some(p.n) ELSE Null

\* elementwise product with NaN propagation
Times(q, p) == IF IsNull(q) \/ IsNull(p) THEN Null ELSE Some(Val(q) * Val(p))

\* Series != Series on object columns: a null on either side compares unequal
NotEqual(a, b) == IsNull(a) \/ IsNull(b) \/ a # b

\* the sentinel _initial_prep writes into a null customer_id
PrepSentinel == "GUEST"

\* the sentinel _check_missing_customer writes into a null customer_id
CheckSentinel == "Unknown"

fillna(o, v) == IF IsNull(o) THEN Some(v) ELSE o

(***************************************************************************)
(* DataTransformer._initial_prep.                                          *)
(***************************************************************************)
\* the flatten step works through the rename when json_normalize produced
\* 'product.id', otherwise through df['product']
Flattened(data) == "id" \in DottedCols(data)

\* KeyError: df['product'] without that column, or df['price'] when the
\* rename had no 'product.price' to rename; or standardize_date raises
PrepRaises(data) ==
  \/ IF Flattened(data) THEN "price" \notin DottedCols(data)
      ELSE ~HasProductCol(data)
  \/ \E i \in 1..Len(data) : standardize_date_raises(data[i].date)

\* the columns the rename or the drop leaves behind: the rename keeps a
\* 'product' column of the records whose product is null, the manual branch
\* drops 'product' and keeps the 'product.<key>' columns
LeftoverCols(data) ==
  IF Flattened(data) THEN (IF HasProductCol(data) THEN {"product"} ELSE {})
  ELSE {"product." \o k : k \in DottedCols(data)}

PrepCols(data) ==
  ScalarCols \cup {"product_id", "price", "date_std", "total_value", "had_date_format_issue"}
    \cup (IF ~Flattened(data) \/ "name" \in DottedCols(data) THEN {"product_name"} ELSE {})
    \cup (IF ~Flattened(data) \/ "category" \in DottedCols(data) THEN {"category"} ELSE {})
    \cup LeftoverCols(data)

PrepRow(rec, flat) ==
  LET price    == IF flat /\ Dotted(rec, "price") THEN to_numeric(rec.product.price) ELSE Null
      date_std == standardize_date(rec.date)
  IN [transaction_id |-> rec.transaction_id,
      customer_id    |-> fillna(rec.customer_id, PrepSentinel),
      quantity       |-> rec.quantity,
      date           |-> rec.date,
      region         |-> rec.region,
      product_id     |-> IF flat /\ Dotted(rec, "id") THEN rec.product.id ELSE Null,
      product_name   |-> IF flat /\ Dotted(rec, "name") THEN rec.product.name ELSE Null,
      category       |-> IF flat /\ Dotted(rec, "category") THEN rec.product.category ELSE Null,
      price          |-> price,
      date_std       |-> date_std,
      total_value    |-> Times(rec.quantity, price),
      had_date_format_issue |-> NotEqual(rec.date, date_std),
      has_missing_customer  |-> FALSE,
      had_negative_quantity |-> FALSE,
      has_suspicious_values |-> FALSE]

initial_prep(data) == [i \in 1..Len(data) |-> PrepRow(data[i], Flattened(data))]

(***************************************************************************)
(* The detectors of DataQualityChecker, each on the whole frame.           *)
(***************************************************************************)
\* Series.sum() of a boolean mask: the number of true entries
sum(mask) == Cardinality({i \in 1..Len(mask) : mask[i]})

Abs(n) == IF n < 0 THEN -n ELSE n

MissingCustomer(row) == IsNull(row.customer_id)

check_missing_customer(frame) ==
  IF sum([i \in 1..Len(frame) |-> MissingCustomer(frame[i])]) > 0
  THEN [i \in 1..Len(frame) |->
          [frame[i] EXCEPT !.has_missing_customer = MissingCustomer(frame[i]),
                           !.customer_id = fillna(@, CheckSentinel)]]
  ELSE frame

NegativeQuantity(row) == ~IsNull(row.quantity) /\ Val(row.quantity) < 0

\* variant: zero counts as negative
check_negative_quantities_zero(frame) ==
  IF \E i \in 1..Len(frame) : ~IsNull(frame[i].quantity) /\ Val(frame[i].quantity) <= 0
  THEN [i \in 1..Len(frame) |->
          [frame[i] EXCEPT !.had_negative_quantity =
                              ~IsNull(frame[i].quantity) /\ Val(frame[i].quantity) <= 0,
                           !.quantity = IF IsNull(@) THEN Null ELSE Some(Abs(Val(@)))]]
  ELSE frame

check_negative_quantities(frame) ==
  IF sum([i \in 1..Len(frame) |-> NegativeQuantity(frame[i])]) > 0
  THEN [i \in 1..Len(frame) |->
          [frame[i] EXCEPT !.had_negative_quantity = NegativeQuantity(frame[i]),
                           !.quantity = IF IsNull(@) THEN Null ELSE Some(Abs(Val(@)))]]
  ELSE frame

\* variant: duplicated() with its default keep='first', which leaves the
\* first member of every group out
check_duplicate_transactions_later(frame) ==
  Cardinality({i \in 1..Len(frame) :
                 \E j \in 1..(i - 1) :
                    frame[j].transaction_id = frame[i].transaction_id})

\* duplicated(keep=False): every member of a group of equal values, nulls
\* forming a group of their own
check_duplicate_transactions(frame) ==
  Cardinality({i \in 1..Len(frame) :
                 \E j \in 1..Len(frame) :
                    j # i /\ frame[j].transaction_id = frame[i].transaction_id})

MissingProductInfo(row) ==
  IsNull(row.product_id) \/ IsNull(row.product_name) \/ IsNull(row.price)

check_missing_product_info(frame) == sum([i \in 1..Len(frame) |-> MissingProductInfo(frame[i])])

InvalidPrice(row) == IsNull(row.price) \/ Val(row.price) <= 0

check_invalid_prices(frame) == sum([i \in 1..Len(frame) |-> InvalidPrice(frame[i])])

DateIssue(row) == IsNull(row.date_std) /\ ~IsNull(row.date)

check_date_issues(frame) ==
  IF sum([i \in 1..Len(frame) |-> DateIssue(frame[i])]) > 0
  THEN [i \in 1..Len(frame) |->
          [frame[i] EXCEPT !.had_date_format_issue = DateIssue(frame[i])]]
  ELSE frame

MissingTransactionId(row) == IsNull(row.transaction_id)

check_missing_transaction_ids(frame) == sum([i \in 1..Len(frame) |-> MissingTransactionId(frame[i])])

\* thresholds of _check_suspicious_values; money in cents
MaxQuantity == 1000

MinPriceCents == 1

MaxTotalCents == 10000000

\* variant: the quantity and total_value thresholds are inclusive
Suspicious_inclusive(row) ==
  \/ (~IsNull(row.quantity) /\ Val(row.quantity) >= MaxQuantity)
  \/ (~IsNull(row.price) /\ Val(row.price) < MinPriceCents)
  \/ (~IsNull(row.total_value) /\ Val(row.total_value) >= MaxTotalCents)

Suspicious(row) ==
  \/ (~IsNull(row.quantity) /\ Val(row.quantity) > MaxQuantity)
  \/ (~IsNull(row.price) /\ Val(row.price) < MinPriceCents)
  \/ (~IsNull(row.total_value) /\ Val(row.total_value) > MaxTotalCents)

check_suspicious_values(frame) ==
  IF sum([i \in 1..Len(frame) |-> Suspicious(frame[i])]) > 0
  THEN [i \in 1..Len(frame) |->
          [frame[i] EXCEPT !.has_suspicious_values = Suspicious(frame[i])]]
  ELSE frame

(***************************************************************************)
(* DataTransformer.transform as a function of the extracted records: the   *)
(* frame of _initial_prep taken through the flag initialisation and the    *)
(* detectors that rewrite the frame, in the order of perform_checks.       *)
(***************************************************************************)
init_flags(frame) ==
  [i \in 1..Len(frame) |->
     [frame[i] EXCEPT !.has_missing_customer = FALSE,
                      !.had_negative_quantity = FALSE,
                      !.has_suspicious_values = FALSE]]

perform_checks(frame) ==
  check_suspicious_values(
    check_date_issues(
      check_negative_quantities(
        check_missing_customer(init_flags(frame)))))

\* KeyError in _initial_prep, or in detector 4 when the frame has no
\* product_name column
TransformRaises(data) == PrepRaises(data) \/ "product_name" \notin PrepCols(data)

transform(data) == perform_checks(initial_prep(data))

(***************************************************************************)
(* The projections of BatchDataLoader.                                     *)
(***************************************************************************)
\* drop_duplicates(): the first occurrence of every value, in order
RECURSIVE drop_duplicates(_)
drop_duplicates(q) ==
  IF q = <<>> THEN <<>>
  ELSE LET front == SubSeq(q, 1, Len(q) - 1)
           last  == q[Len(q)]
       IN IF \E k \in 1..Len(front) : front[k] = last
          THEN drop_duplicates(front)
          ELSE Append(drop_duplicates(front), last)

CustomerKey(row) == [customer_id |-> row.customer_id]

ProductTuple(row) ==
  [product_id |-> row.product_id, product_name |-> row.product_name,
   category |-> row.category, price |-> row.price]

NoCustomerId(row) == IsNull(row.customer_id)

NoProductId(row) == IsNull(row.product_id)

\* variant: the customers are not deduplicated
prepare_customers_df_keep_repeats(frame) ==
  SelectSeq([i \in 1..Len(frame) |-> CustomerKey(frame[i])],
            LAMBDA row : ~NoCustomerId(row))

\* dropna keeps the rows whose column is not null, in order
prepare_customers_df(frame) ==
  drop_duplicates(SelectSeq([i \in 1..Len(frame) |-> CustomerKey(frame[i])],
                            LAMBDA row : ~NoCustomerId(row)))

\* variant: dropna() without subset, a tuple with any null field is dropped
prepare_products_df_dropany(frame) ==
  SelectSeq(drop_duplicates([i \in 1..Len(frame) |-> ProductTuple(frame[i])]),
            LAMBDA row : ~(NoProductId(row) \/ IsNull(row.product_name)
                             \/ IsNull(row.category) \/ IsNull(row.price)))

prepare_products_df(frame) ==
  SelectSeq(drop_duplicates([i \in 1..Len(frame) |-> ProductTuple(frame[i])]),
            LAMBDA row : ~NoProductId(row))

\* pd.to_datetime(errors='coerce') on a 'YYYY-MM-DD' string: the calendar
\* date, or NaT for null
to_datetime(o) ==
  IF IsNull(o) THEN Null
  ELSE LET c == Val(o)
           d == <<NumVal(SubSeq(c, 1, 4)), NumVal(SubSeq(c, 6, 7)), NumVal(SubSeq(c, 9, 10))>>
       IN IF Len(c) = 10 /\ c[5] = "-" /\ c[8] = "-" /\ ValidDate(d) THEN Some(d) ELSE Null

TransactionRow(row) ==
  [transaction_id |-> row.transaction_id, customer_id |-> row.customer_id,
   product_id |-> row.product_id, quantity |-> row.quantity, date |-> row.date,
   date_std |-> to_datetime(row.date_std), region |-> row.region,
   total_value |-> row.total_value,
   has_missing_customer |-> row.has_missing_customer,
   had_negative_quantity |-> row.had_negative_quantity,
   had_date_format_issue |-> row.had_date_format_issue,
   has_suspicious_values |-> row.has_suspicious_values]

prepare_transactions_df(frame) == [i \in 1..Len(frame) |-> TransactionRow(frame[i])]

\* KeyError in _prepare_products_df: a selected column is not in the frame
PrepareRaises(columns) ==
  ~({"product_id", "product_name", "category", "price"} \subseteq columns)

(***************************************************************************)
(* The chunks of _load_table_in_batches.                                   *)
(***************************************************************************)
Min(a, b) == IF a < b THEN a ELSE b

\* variant: the slice runs one row into the next chunk
Chunk_overlap(frame, i, b) == SubSeq(frame, i + 1, Min(i + b + 1, Len(frame)))

\* df.iloc[i : i + batch_size], i counted from 0
Chunk(frame, i, b) == SubSeq(frame, i + 1, Min(i + b, Len(frame)))

\* (total_rows + batch_size - 1) // batch_size
Batches_of(n, b) == (n + b - 1) \div b

\* variant: products are loaded before customers
Tables_products_first == <<"products", "customers", "transactions">>

\* the order of the three _load_table_in_batches calls
Tables == <<"customers", "products", "transactions">>

(***************************************************************************)
(* State.                                                                  *)
(***************************************************************************)
VARIABLES
  pc,           \* the statement ETLPipeline.run is at
  inputFile,    \* the file behind input_file
  batch_size,   \* the batch_size argument of run
  data,         \* the records from_json returned
  df,           \* the rows of the working DataFrame
  cols,         \* the column names of the working DataFrame
  issues,       \* the defect counts of perform_checks
  frames,       \* the three projections prepared for loading
  pos,          \* the loop variable i of _load_table_in_batches
  engine,       \* the SQLAlchemy engine of the load: none, open, disposed
  store,        \* the rows of the three tables of the database
  log,          \* every to_sql call of the run: table, rows, accepted
  stages,       \* the stages run has invoked, in order
  schema_ok,    \* the value create_schema_and_indexes returned
  success,      \* the value load_with_batch_processing returned
  result,       \* the value run returned
  disposals,    \* the engine.dispose() calls of the load
  indexes,      \* the three indexes of the transactions table exist
  fault,        \* the environment has failed: no connection, a server
                \* error, no engine, or a rejected to_sql
  run,          \* the number of the execution of the pipeline
  history,      \* the outcome of every earlier execution
  date_in,      \* the argument of a standardize_date call
  date_out,     \* what that call returned
  depth,        \* the create_connection frames on the stack
  db_exists,    \* the server has the database
  attempts,     \* what the server answered to every connect, in order
  connection    \* what create_connection returned

vars == <<pc, inputFile, batch_size, data, df, cols, issues, frames, pos, engine,
          store, log, stages, schema_ok, success, result, disposals, indexes,
          fault, run, history, date_in, date_out, depth, db_exists, attempts,
          connection>>

\* what no statement of one execution of run touches
Outer == <<run, history, date_in, date_out, depth, db_exists, attempts, connection>>

\* a call that was not made
NotCalled == [called |-> FALSE, value |-> Null]

NoIssues ==
  [k \in {"missing_customer", "negative_quantities", "duplicate_transactions",
          "missing_product_info", "invalid_prices", "date_issues",
          "missing_transaction_ids", "suspicious_values"} |-> 0]

NoFrames == [customers |-> <<>>, products |-> <<>>, transactions |-> <<>>]

Init ==
  /\ pc = "schema"
  /\ inputFile \in InputFiles
  /\ batch_size \in 1..MaxBatchSize
  /\ data = <<>>
  /\ df = <<>>
  /\ cols = {}
  /\ issues = NoIssues
  /\ frames = NoFrames
  /\ pos = 0
  /\ engine = "none"
  /\ store = NoFrames
  /\ log = <<>>
  /\ stages = <<>>
  /\ schema_ok = Null
  /\ success = Null
  /\ result = Null
  /\ disposals = 0
  /\ indexes = FALSE
  /\ fault = FALSE
  /\ run = 1
  /\ history = <<>>
  /\ date_in = NotCalled
  /\ date_out = NotCalled
  /\ depth = 0
  /\ db_exists = TRUE
  /\ attempts = <<>>
  /\ connection = NotCalled

(***************************************************************************)
(* ETLPipeline.run, statement by statement.                                *)
(***************************************************************************)
\* run returns False
Abort ==
  /\ pc' = "done"
  /\ result' = Some(FALSE)

\* DatabaseManager.create_schema_and_indexes: False without a connection or
\* on an Error of the server, True after the commit.  The tables are created
\* IF NOT EXISTS; CREATE INDEX has no such clause, so the server answers it
\* with an Error (duplicate key name) when the index exists.  Any other
\* Error may come before or after an index was created.  Its call of
\* create_connection may also end in a RecursionError (see CreateDatabase),
\* which nothing catches: no value is returned.
SchemaSetup ==
  /\ pc = "schema"
  /\ stages' = Append(stages, "schema")
  /\ \E outcome \in {"created", "duplicate_index", "no_connection", "error",
                      "recursion_error"} :
       /\ outcome = "created" => ~indexes
       /\ outcome = "duplicate_index" => indexes
       /\ schema_ok' = IF outcome = "recursion_error" THEN Null
                       ELSE Some(outcome = "created")
       /\ fault' = (fault \/ outcome \in {"no_connection", "error", "recursion_error"})
       /\ IF outcome = "created" THEN indexes' = TRUE
          ELSE IF outcome = "error" THEN \E some \in BOOLEAN : indexes' = (indexes \/ some)
          ELSE UNCHANGED indexes
       /\ IF outcome = "created" THEN pc' = "extract" /\ UNCHANGED result
          ELSE IF outcome = "recursion_error" THEN pc' = "raised" /\ UNCHANGED result
          ELSE Abort
  /\ UNCHANGED <<Outer, disposals, inputFile, batch_size, data, df, cols, issues,
                 frames, pos, engine, store, log, success>>

\* DataExtractor.from_json: [] for a missing or unparsable file
from_json(file) == IF file.status = "ok" THEN file.content ELSE <<>>

\* variant: an empty extraction does not stop the run
Extract_no_abort ==
  /\ pc = "extract"
  /\ stages' = Append(stages, "extract")
  /\ data' = from_json(inputFile)
  /\ pc' = "prep"
  /\ UNCHANGED <<Outer, disposals, indexes, fault, inputFile, batch_size, df, cols, issues, frames, pos, engine,
                 store, log, schema_ok, success, result>>

Extract ==
  /\ pc = "extract"
  /\ stages' = Append(stages, "extract")
  /\ data' = from_json(inputFile)
  /\ IF data' = <<>> THEN Abort ELSE pc' = "prep" /\ UNCHANGED result
  /\ UNCHANGED <<Outer, disposals, indexes, fault, inputFile, batch_size, df, cols, issues, frames, pos, engine,
                 store, log, success, schema_ok>>

\* an exception leaves run: no value is returned
Raise ==
  /\ pc' = "raised"
  /\ UNCHANGED result

\* DataTransformer.transform, first half: _initial_prep
InitialPrep ==
  /\ pc = "prep"
  /\ stages' = Append(stages, "transform")
  /\ IF PrepRaises(data)
     THEN Raise /\ UNCHANGED <<df, cols>>
     ELSE /\ df' = initial_prep(data)
          /\ cols' = PrepCols(data)
          /\ pc' = "checks"
          /\ UNCHANGED result
  /\ UNCHANGED <<Outer, disposals, indexes, fault, inputFile, batch_size, data, issues, frames, pos, engine,
                 store, log, success, schema_ok>>

\* perform_checks: the three flag columns start as False
InitFlags ==
  /\ pc = "checks"
  /\ df' = [i \in 1..Len(df) |->
              [df[i] EXCEPT !.has_missing_customer = FALSE,
                            !.had_negative_quantity = FALSE,
                            !.has_suspicious_values = FALSE]]
  /\ cols' = cols \cup {"has_missing_customer", "had_negative_quantity",
                        "has_suspicious_values"}
  /\ pc' = "check1"
  /\ UNCHANGED <<Outer, disposals, indexes, fault, inputFile, batch_size, data, issues, frames, pos, engine,
                 store, log, stages, success, result, schema_ok>>

\* one detector that may rewrite the frame
Detector(at, next, name, count, frame) ==
  /\ pc = at
  /\ issues' = [issues EXCEPT ![name] = count]
  /\ df' = frame
  /\ pc' = next
  /\ UNCHANGED <<Outer, disposals, indexes, fault, inputFile, batch_size, data, cols, frames, pos, engine,
                 store, log, stages, success, result, schema_ok>>

CheckMissingCustomer ==
  Detector("check1", "check2", "missing_customer",
           sum([i \in 1..Len(df) |-> MissingCustomer(df[i])]), check_missing_customer(df))

CheckNegativeQuantities ==
  Detector("check2", "check3", "negative_quantities",
           sum([i \in 1..Len(df) |-> NegativeQuantity(df[i])]), check_negative_quantities(df))

\* variant: the rows of a duplicate group are removed
CheckDuplicateTransactions_remove ==
  Detector("check3", "check4", "duplicate_transactions",
           check_duplicate_transactions(df),
           SelectSeq(df, LAMBDA row :
                           Cardinality({j \in 1..Len(df) :
                                          df[j].transaction_id = row.transaction_id}) = 1))

CheckDuplicateTransactions ==
  Detector("check3", "check4", "duplicate_transactions",
           check_duplicate_transactions(df), df)

\* df[['product_id', 'product_name', 'price']] raises KeyError when the
\* rename left no product_name column
CheckMissingProductInfo ==
  /\ pc = "check4"
  /\ IF "product_name" \in cols
     THEN /\ issues' = [issues EXCEPT !["missing_product_info"] =
                                         check_missing_product_info(df)]
          /\ pc' = "check5"
          /\ UNCHANGED result
     ELSE Raise /\ UNCHANGED issues
  /\ UNCHANGED <<Outer, disposals, indexes, fault, inputFile, batch_size, data, df, cols, frames, pos, engine,
                 store, log, stages, success, schema_ok>>

CheckInvalidPrices ==
  Detector("check5", "check6", "invalid_prices", check_invalid_prices(df), df)

CheckDateIssues ==
  Detector("check6", "check7", "date_issues",
           sum([i \in 1..Len(df) |-> DateIssue(df[i])]), check_date_issues(df))

CheckMissingTransactionIds ==
  Detector("check7", "check8", "missing_transaction_ids",
           check_missing_transaction_ids(df), df)

CheckSuspiciousValues ==
  Detector("check8", "transformed", "suspicious_values",
           sum([i \in 1..Len(df) |-> Suspicious(df[i])]), check_suspicious_values(df))

\* transform returns; run aborts on an empty frame
TransformReturn ==
  /\ pc = "transformed"
  /\ IF df = <<>> THEN Abort ELSE pc' = "load" /\ UNCHANGED result
  /\ UNCHANGED <<Outer, disposals, indexes, fault, inputFile, batch_size, data, df, cols, issues, frames, pos, engine,
                 store, log, stages, success, schema_ok>>

(***************************************************************************)
(* BatchDataLoader.load_with_batch_processing.                             *)
(***************************************************************************)
\* variant: no finally clause, the engine stays open after an exception
LoadFails_leak ==
  /\ success' = Some(FALSE)
  /\ pc' = "loaded"
  /\ UNCHANGED <<engine, disposals>>

\* the except clause and the finally clause after an exception in the try
\* block: False is returned and the engine is disposed
LoadFails ==
  /\ success' = Some(FALSE)
  /\ engine' = "disposed"
  /\ disposals' = disposals + 1
  /\ pc' = "loaded"

\* create_sqlalchemy_engine returns an engine, or None and the load returns
\* False at once
LoadBegin ==
  /\ pc = "load"
  /\ stages' = Append(stages, "load")
  /\ \E created \in BOOLEAN :
       /\ fault' = (fault \/ ~created)
       /\ IF created
          THEN engine' = "open" /\ pc' = "prepare" /\ UNCHANGED success
          ELSE success' = Some(FALSE) /\ pc' = "loaded" /\ UNCHANGED engine
  /\ UNCHANGED <<Outer, disposals, indexes, inputFile, batch_size, data, df, cols,
                 issues, frames, pos, store, log, result, schema_ok>>

\* the three _prepare_*_df calls
PrepareFrames ==
  /\ pc = "prepare"
  /\ IF PrepareRaises(cols)
     THEN LoadFails /\ UNCHANGED frames
     ELSE /\ frames' = [customers    |-> prepare_customers_df(df),
                        products     |-> prepare_products_df(df),
                        transactions |-> prepare_transactions_df(df)]
          /\ pc' = Tables[1]
          /\ UNCHANGED <<engine, success, disposals>>
  /\ pos' = 0
  /\ UNCHANGED <<Outer, indexes, fault, inputFile, batch_size, data, df, cols,
                 issues, store, log, stages, result, schema_ok>>

\* where the load goes after table number k
AfterTable(k) == IF k < Len(Tables) THEN Tables[k + 1] ELSE "finish"

\* variant: the exception of a rejected chunk is swallowed and the loop
\* goes on with the next chunk
LoadTable_continue(k) ==
  LET table == Tables[k]
      frame == frames[table]
      chunk == Chunk(frame, pos, batch_size)
  IN /\ pc = table
     /\ IF frame = <<>>
        THEN /\ pc' = AfterTable(k)
             /\ UNCHANGED <<pos, store, log, fault>>
        ELSE \E accepted \in BOOLEAN :
               /\ log' = Append(log, [table |-> table, rows |-> chunk, ok |-> accepted])
               /\ fault' = (fault \/ ~accepted)
               /\ store' = IF accepted THEN [store EXCEPT ![table] = @ \o chunk] ELSE store
               /\ IF pos + batch_size < Len(frame)
                  THEN pos' = pos + batch_size /\ pc' = table
                  ELSE pos' = 0 /\ pc' = AfterTable(k)
     /\ UNCHANGED <<Outer, disposals, indexes, inputFile, batch_size, data, df, cols,
                    issues, frames, stages, schema_ok, engine, success, result>>

\* _load_table_in_batches on table number k: the early return for an empty
\* frame, or one iteration of the loop, whose to_sql the store accepts or
\* rejects; a rejected chunk writes nothing and its exception ends the load
LoadTable(k) ==
  LET table == Tables[k]
      frame == frames[table]
      chunk == Chunk(frame, pos, batch_size)
  IN /\ pc = table
     /\ IF frame = <<>>
        THEN /\ pc' = AfterTable(k)
             /\ UNCHANGED <<pos, store, log, engine, success, disposals, fault>>
        ELSE \E accepted \in BOOLEAN :
               /\ log' = Append(log, [table |-> table, rows |-> chunk, ok |-> accepted])
               /\ fault' = (fault \/ ~accepted)
               /\ IF accepted
                  THEN /\ store' = [store EXCEPT ![table] = @ \o chunk]
                       /\ IF pos + batch_size < Len(frame)
                          THEN pos' = pos + batch_size /\ pc' = table
                          ELSE pos' = 0 /\ pc' = AfterTable(k)
                       /\ UNCHANGED <<engine, success, disposals>>
                  ELSE LoadFails /\ UNCHANGED <<pos, store>>
     /\ UNCHANGED <<Outer, indexes, inputFile, batch_size, data, df, cols, issues,
                    frames, stages, result, schema_ok>>

LoadCustomers == LoadTable(1)

LoadProducts == LoadTable(2)

LoadTransactions == LoadTable(3)

\* the three tables are written: True is returned and the engine disposed
LoadFinish ==
  /\ pc = "finish"
  /\ success' = Some(TRUE)
  /\ engine' = "disposed"
  /\ disposals' = disposals + 1
  /\ pc' = "loaded"
  /\ UNCHANGED <<Outer, indexes, fault, inputFile, batch_size, data, df, cols,
                 issues, frames, pos, store, log, stages, result, schema_ok>>

\* run aborts on a failed load; otherwise the analytics queries run when
\* asked for, their outcome is ignored and run returns True
LoadReturn ==
  /\ pc = "loaded"
  /\ IF success = Some(FALSE)
     THEN Abort /\ UNCHANGED stages
     ELSE /\ \E run_analytics \in BOOLEAN :
               stages' = IF run_analytics THEN Append(stages, "analytics") ELSE stages
          /\ pc' = "done"
          /\ result' = Some(TRUE)
  /\ UNCHANGED <<Outer, disposals, indexes, fault, inputFile, batch_size, data, df, cols, issues, frames, pos, engine,
                 store, log, success, schema_ok>>

Next ==
  \/ SchemaSetup
  \/ Extract
  \/ InitialPrep
  \/ InitFlags
  \/ CheckMissingCustomer
  \/ CheckNegativeQuantities
  \/ CheckDuplicateTransactions
  \/ CheckMissingProductInfo
  \/ CheckInvalidPrices
  \/ CheckDateIssues
  \/ CheckMissingTransactionIds
  \/ CheckSuspiciousValues
  \/ TransformReturn
  \/ LoadBegin
  \/ PrepareFrames
  \/ LoadCustomers
  \/ LoadProducts
  \/ LoadTransactions
  \/ LoadFinish
  \/ LoadReturn

Spec == Init /\ [][Next]_vars

(***************************************************************************)
(* The pipeline executed again on the same input and the same database.    *)
(***************************************************************************)
\* the largest number of executions in a row
MaxRuns == 2

FlagNames ==
  {"has_missing_customer", "had_negative_quantity", "had_date_format_issue",
   "has_suspicious_values"}

\* what an execution leaves behind: the value run returned, the row count
\* of every table and, per flag, the number of stored transactions carrying it
Outcome ==
  [result |-> result,
   rows   |-> [t \in {"customers", "products", "transactions"} |-> Len(store[t])],
   flags  |-> [f \in FlagNames |->
                 Cardinality({k \in 1..Len(store.transactions) : store.transactions[k][f]})]]

\* the entry point calls ETLPipeline.run once more: everything run builds
\* starts afresh, the database keeps its tables, rows and indexes
Rerun ==
  /\ pc \in {"done", "raised"}
  /\ run < MaxRuns
  /\ run' = run + 1
  /\ history' = Append(history, Outcome)
  /\ pc' = "schema"
  /\ data' = <<>>
  /\ df' = <<>>
  /\ cols' = {}
  /\ issues' = NoIssues
  /\ frames' = NoFrames
  /\ pos' = 0
  /\ engine' = "none"
  /\ log' = <<>>
  /\ stages' = <<>>
  /\ schema_ok' = Null
  /\ success' = Null
  /\ result' = Null
  /\ disposals' = 0
  /\ UNCHANGED <<inputFile, batch_size, store, indexes, fault, date_in, date_out,
                 depth, db_exists, attempts, connection>>

NextRerun == Next \/ Rerun

SpecRerun == Init /\ [][NextRerun]_vars

(***************************************************************************)
(* standardize_date called on its own, on one date string.                 *)
(***************************************************************************)
YearParts ==
  {<<"2", "0", "2", "3">>, <<"2", "0", "2", "4">>, <<"2", "0", " ", "2", "3">>}

MonthParts == {<<"0", "7">>, <<"0", "2">>, <<"1", "3">>}

DayParts == {<<"2", "2">>, <<"3", "0">>, <<"5">>}

DateSeps == {<<"-">>, <<"/">>, <<" ">>}

\* a run of digits that dateutil reads as the year 8335394550
DateOverflow == <<"0", "8", "3", "3", "5", "3", "9", "4", "5", "5", "0">>

\* year first (the year whole or split by a space), and month first with
\* the year whole
DateStrings ==
  {y \o s \o m \o s \o d : y \in YearParts, s \in DateSeps, m \in MonthParts, d \in DayParts}
    \cup {m \o s \o d \o s \o y :
            y \in {z \in YearParts : Len(z) = 4}, s \in DateSeps,
            m \in MonthParts, d \in DayParts}
    \cup {DateIso, DateUs, DateSplit, DateBad, DateOverflow, <<>>,
          <<" ">> \o DateIso \o <<" ">>}

DateInputs == {Null} \cup {Some(d) : d \in DateStrings}

DateInit ==
  /\ pc = "date"
  /\ inputFile = [status |-> "missing", content |-> <<>>]
  /\ batch_size = 1
  /\ data = <<>>
  /\ df = <<>>
  /\ cols = {}
  /\ issues = NoIssues
  /\ frames = NoFrames
  /\ pos = 0
  /\ engine = "none"
  /\ store = NoFrames
  /\ log = <<>>
  /\ stages = <<>>
  /\ schema_ok = Null
  /\ success = Null
  /\ result = Null
  /\ disposals = 0
  /\ indexes = FALSE
  /\ fault = FALSE
  /\ run = 1
  /\ history = <<>>
  /\ date_in \in {[called |-> TRUE, value |-> d] : d \in DateInputs}
  /\ date_out = NotCalled
  /\ depth = 0
  /\ db_exists = TRUE
  /\ attempts = <<>>
  /\ connection = NotCalled

\* the call returns a value, or an exception leaves it
StandardizeDate ==
  /\ pc = "date"
  /\ IF standardize_date_raises(date_in.value)
     THEN pc' = "raised" /\ UNCHANGED date_out
     ELSE /\ date_out' = [called |-> TRUE, value |-> standardize_date(date_in.value)]
          /\ pc' = "date_done"
  /\ UNCHANGED <<inputFile, batch_size, data, df, cols, issues, frames, pos, engine,
                 store, log, stages, schema_ok, success, result, disposals, indexes,
                 fault, run, history, date_in, depth, db_exists, attempts, connection>>

SpecDate == DateInit /\ [][StandardizeDate]_vars

(***************************************************************************)
(* DatabaseManager.create_connection called on its own.  The server        *)
(* answers a connect with a connection, with a connection that is not      *)
(* connected, with the Error "Unknown database" when it does not have the  *)
(* database, or with another Error.                                        *)
(***************************************************************************)
\* the depth at which the interpreter stops the recursion with a
\* RecursionError (sys.getrecursionlimit() frames on the real stack)
MaxDepth == 6

ConnInit ==
  /\ pc = "connect"
  /\ inputFile = [status |-> "missing", content |-> <<>>]
  /\ batch_size = 1
  /\ data = <<>>
  /\ df = <<>>
  /\ cols = {}
  /\ issues = NoIssues
  /\ frames = NoFrames
  /\ pos = 0
  /\ engine = "none"
  /\ store = NoFrames
  /\ log = <<>>
  /\ stages = <<>>
  /\ schema_ok = Null
  /\ success = Null
  /\ result = Null
  /\ disposals = 0
  /\ indexes = FALSE
  /\ fault = FALSE
  /\ run = 1
  /\ history = <<>>
  /\ date_in = NotCalled
  /\ date_out = NotCalled
  /\ depth = 1
  /\ db_exists \in BOOLEAN
  /\ attempts = <<>>
  /\ connection = NotCalled

\* what create_connection leaves alone
ConnFrame ==
  <<inputFile, batch_size, data, df, cols, issues, frames, pos, engine, store, log,
    stages, schema_ok, success, result, disposals, indexes, fault, run, history,
    date_in, date_out>>

\* the try block of create_connection: the connection is returned, or None
\* after an unconnected connection or an Error other than "Unknown database"
Connect ==
  /\ pc = "connect"
  /\ \E answer \in {"connected", "not_connected", "unknown_database", "error"} :
       /\ answer = "connected" => db_exists
       /\ answer = "unknown_database" => ~db_exists
       /\ attempts' = Append(attempts, answer)
       /\ IF answer = "unknown_database"
          THEN pc' = "create_database" /\ UNCHANGED connection
          ELSE /\ pc' = "returned"
               /\ connection' = [called |-> TRUE,
                                 value  |-> IF answer = "connected"
                                            THEN Some("connection") ELSE Null]
  /\ UNCHANGED <<depth, db_exists, ConnFrame>>

\* the except branch for "Unknown database": _create_database, which
\* swallows its own Error, and then create_connection once more, whatever
\* _create_database achieved; at MaxDepth the call raises RecursionError
CreateDatabase ==
  /\ pc = "create_database"
  /\ \E answer \in {"created", "not_connected", "error"} :
       /\ db_exists' = (db_exists \/ answer = "created")
       /\ attempts' = Append(attempts, answer)
       /\ IF depth < MaxDepth
          THEN depth' = depth + 1 /\ pc' = "connect"
          ELSE pc' = "raised" /\ UNCHANGED depth
  /\ UNCHANGED <<connection, ConnFrame>>

ConnNext == Connect \/ CreateDatabase

\* a call that has begun goes on: the interpreter keeps executing
SpecConnect == ConnInit /\ [][ConnNext]_vars /\ WF_vars(ConnNext)

(***************************************************************************)
(* Vocabulary of the properties.                                           *)
(***************************************************************************)
PcOrder ==
  <<"schema", "extract", "prep", "checks", "check1", "check2", "check3", "check4",
    "check5", "check6", "check7", "check8", "transformed", "load", "prepare",
    "customers", "products", "transactions", "finish", "loaded", "done">>

Rank(p) == CHOOSE k \in 1..Len(PcOrder) : PcOrder[k] = p

\* run has gone past the statement p without raising
Past(p) == pc # "raised" /\ Rank(pc) > Rank(p)

\* the transform has returned its frame
Transformed == Past("check8")

\* the three projections exist
Prepared == frames.transactions # <<>>

Rows == 1..Len(df)

\* the rows of the accepted to_sql calls on table t among the first m calls
RECURSIVE Written(_, _)
Written(t, m) ==
  IF m = 0 THEN <<>>
  ELSE Written(t, m - 1) \o (IF log[m].table = t /\ log[m].ok THEN log[m].rows ELSE <<>>)

\* the rows of all to_sql calls on table t, accepted or not, in call order
RECURSIVE Sent(_, _)
Sent(t, m) ==
  IF m = 0 THEN <<>>
  ELSE Sent(t, m - 1) \o (IF log[m].table = t THEN log[m].rows ELSE <<>>)

Calls(t) == {k \in 1..Len(log) : log[k].table = t}

Rejected == \E k \in 1..Len(log) : ~log[k].ok

IsPrefix(p, q) == Len(p) <= Len(q) /\ SubSeq(q, 1, Len(p)) = p

(***************************************************************************)
(* C1.  After the transform, has_missing_customer of a row is true exactly *)
(* when the customer_id of its input record was null.                      *)
(***************************************************************************)
C1_MissingCustomerFlag ==
  Transformed =>
    \A i \in Rows : df[i].has_missing_customer = IsNull(data[i].customer_id)

(***************************************************************************)
(* C2.  After the transform, total_value is null exactly when price or     *)
(* quantity is null, and otherwise it is the repaired quantity times the   *)
(* price; so a negative original quantity with a non-negative price ends   *)
(* with a non-negative total_value.                                        *)
(***************************************************************************)
C2_TotalValue ==
  Transformed =>
    \A i \in Rows :
      /\ IsNull(df[i].total_value) <=> (IsNull(df[i].price) \/ IsNull(df[i].quantity))
      /\ ~IsNull(df[i].total_value) =>
           Val(df[i].total_value) = Val(df[i].quantity) * Val(df[i].price)
      /\ (~IsNull(df[i].total_value) /\ Val(data[i].quantity) < 0 /\ Val(df[i].price) >= 0)
           => Val(df[i].total_value) >= 0

(***************************************************************************)
(* C3.  After the transform, had_negative_quantity of a row is true        *)
(* exactly when the quantity of its input record was below zero, and the   *)
(* quantity of the row is the absolute value of the input quantity.        *)
(***************************************************************************)
C3_NegativeQuantity ==
  Transformed =>
    \A i \in Rows :
      LET q == data[i].quantity
      IN /\ df[i].had_negative_quantity = (~IsNull(q) /\ Val(q) < 0)
         /\ df[i].quantity = (IF IsNull(q) THEN Null
                              ELSE IF Val(q) < 0 THEN Some(0 - Val(q)) ELSE q)

\* a transformed batch with a repaired negative quantity next to a
\* quantity that was left alone
C3_Witness ==
  /\ Transformed
  /\ \E i, j \in Rows :
       /\ data[i].quantity = Some(-3) /\ df[i].quantity = Some(3)
       /\ df[i].had_negative_quantity
       /\ data[j].quantity = Some(0) /\ df[j].quantity = Some(0)
       /\ ~df[j].had_negative_quantity

(***************************************************************************)
(* C4.  The single record T001 (null customer, P01 at 25.0, quantity -3,   *)
(* date 2023-01-05) gives one Customers row "Unknown", one Products row    *)
(* and one Transactions row with quantity 3, total_value 75.0 and both     *)
(* has_missing_customer and had_negative_quantity true.                    *)
(***************************************************************************)
C4_Scenario ==
  (data = <<RecScenario>> /\ Prepared) =>
    /\ frames.customers = <<[customer_id |-> Some("Unknown")]>>
    /\ Len(frames.products) = 1
    /\ Len(frames.transactions) = 1
    /\ frames.transactions[1].quantity = Some(3)
    /\ frames.transactions[1].total_value = Some(7500)
    /\ frames.transactions[1].has_missing_customer
    /\ frames.transactions[1].had_negative_quantity

(***************************************************************************)
(* C5.  No step of the run turns a flag of a row from true to false.       *)
(***************************************************************************)
C5_FlagsMonotone ==
  [][\A i \in Rows :
       /\ df[i].has_missing_customer => df'[i].has_missing_customer
       /\ df[i].had_negative_quantity => df'[i].had_negative_quantity
       /\ df[i].had_date_format_issue => df'[i].had_date_format_issue
       /\ df[i].has_suspicious_values => df'[i].has_suspicious_values]_vars

(***************************************************************************)
(* C6.  The tables are written in the order customers, products,           *)
(* transactions: when a chunk of products is sent, every chunk of the      *)
(* customers projection has been accepted, and when a chunk of             *)
(* transactions is sent, every chunk of both other projections has.        *)
(***************************************************************************)
Parents(t) ==
  IF t = "products" THEN {"customers"}
  ELSE IF t = "transactions" THEN {"customers", "products"}
  ELSE {}

C6_TableOrder ==
  \A k \in 1..Len(log) :
    \A t \in Parents(log[k].table) : Written(t, k - 1) = frames[t]

\* a successful run that wrote customers in two chunks, then products, then
\* transactions
C6_Witness ==
  /\ pc = "done" /\ result = Some(TRUE)
  /\ Cardinality(Calls("customers")) >= 2
  /\ Calls("products") # {}
  /\ Calls("transactions") # {}

(***************************************************************************)
(* C7.  After a rejected chunk nothing more is sent (no later chunk, no    *)
(* later table, no retry), the chunks accepted before it are still in the  *)
(* store, the load has returned False and so does run.                     *)
(***************************************************************************)
C7_RejectedChunk ==
  Rejected =>
    /\ \A k \in 1..Len(log) : ~log[k].ok <=> k = Len(log)
    /\ \A t \in {"customers", "products", "transactions"} :
         store[t] = Written(t, Len(log))
    /\ pc \in {"loaded", "done"}
    /\ success = Some(FALSE)
    /\ pc = "done" => result = Some(FALSE)

\* a finished run whose last to_sql was rejected after an accepted chunk of
\* the same table, which is still stored
C7_Witness ==
  /\ pc = "done" /\ result = Some(FALSE) /\ Len(log) >= 2
  /\ ~log[Len(log)].ok
  /\ log[Len(log) - 1].ok
  /\ log[Len(log) - 1].table = log[Len(log)].table
  /\ store[log[Len(log)].table] = log[Len(log) - 1].rows

(***************************************************************************)
(* C8.  run invokes schema setup, extraction, transform and load in that   *)
(* order and stops at the first stage that fails: a failed schema setup,   *)
(* an empty extraction, an empty transform result or a failed load makes   *)
(* run return False with no later stage invoked.                           *)
(***************************************************************************)
AllStages == <<"schema", "extract", "transform", "load", "analytics">>

Halted(n) == stages = SubSeq(AllStages, 1, n) /\ pc = "done" /\ result = Some(FALSE)

C8_FailFast ==
  /\ IsPrefix(stages, AllStages)
  /\ schema_ok = Some(FALSE) => Halted(1)
  /\ Len(stages) >= 2 => schema_ok = Some(TRUE)
  /\ (Len(stages) >= 2 /\ data = <<>>) => Halted(2)
  /\ (Past("check8") /\ Len(stages) >= 3 /\ df = <<>>) => Halted(3)
  /\ Len(stages) >= 4 => df # <<>>
  /\ (Past("loaded") /\ success = Some(FALSE)) => Halted(4)
  /\ Len(stages) >= 5 => success = Some(TRUE)
  /\ result = Some(TRUE) => (pc = "done" /\ success = Some(TRUE))
  /\ result = Some(FALSE) => pc = "done"

\* a run that stopped after a failed extraction
C8_Witness ==
  /\ Halted(2)
  /\ inputFile.status = "malformed"
  /\ schema_ok = Some(TRUE)

(***************************************************************************)
(* C9.  A non-empty projection of n rows is sent in ceil(n / batch_size)   *)
(* to_sql calls, each of at most batch_size rows, in ascending row order,  *)
(* and the chunks in call order make up the projection.                    *)
(***************************************************************************)
Ceil(n, b) == CHOOSE c \in 0..n : c * b >= n /\ (c = 0 \/ (c - 1) * b < n)

\* the load has gone through table t without a rejected chunk
TableDone(t) ==
  /\ Prepared /\ Past(t)
  /\ \A k \in 1..Len(log) : log[k].table \in Parents(t) \cup {t} => log[k].ok

C9_Chunks ==
  Prepared =>
    \A t \in {"customers", "products", "transactions"} :
      /\ \A k \in Calls(t) : Len(log[k].rows) \in 1..batch_size
      /\ IsPrefix(Sent(t, Len(log)), frames[t])
      /\ TableDone(t) =>
           /\ Sent(t, Len(log)) = frames[t]
           /\ Cardinality(Calls(t)) = Ceil(Len(frames[t]), batch_size)

\* three transactions sent as a chunk of two and a chunk of one
C9_Witness ==
  /\ TableDone("transactions")
  /\ Len(frames.transactions) = 3 /\ batch_size = 2
  /\ Cardinality(Calls("transactions")) = 2
  /\ store.transactions = frames.transactions

(***************************************************************************)
(* C10.  Whatever defects the records of a non-empty input carry, the      *)
(* transform does not abort and the Transactions projection holds one row  *)
(* per input record, in input order.                                       *)
(***************************************************************************)
C10_NoRowDropped ==
  /\ data # <<>> => pc # "raised"
  /\ (Past("prepare") /\ engine # "none") =>
       /\ Len(frames.transactions) = Len(data)
       /\ \A i \in 1..Len(frames.transactions) :
            /\ frames.transactions[i].transaction_id = data[i].transaction_id
            /\ frames.transactions[i].date = data[i].date
            /\ frames.transactions[i].region = data[i].region

(***************************************************************************)
(* C11.  After the transform no row has a null customer_id; a row whose    *)
(* input customer_id was null carries "Unknown"; every other row keeps     *)
(* the customer_id of its input record.                                    *)
(***************************************************************************)
C11_UnknownSentinel ==
  Transformed =>
    \A i \in Rows :
      /\ ~IsNull(df[i].customer_id)
      /\ IsNull(data[i].customer_id) => df[i].customer_id = Some("Unknown")
      /\ ~IsNull(data[i].customer_id) => df[i].customer_id = data[i].customer_id

(***************************************************************************)
(* C12.  The customers projection holds each non-null customer_id of the   *)
(* transformed rows exactly once; the products projection holds each       *)
(* (product_id, product_name, category, price) tuple of the transformed    *)
(* rows whose product_id is not null exactly once, and no other tuple.     *)
(***************************************************************************)
AsSet(q) == {q[k] : k \in 1..Len(q)}

NoRepeat(q) == Cardinality(AsSet(q)) = Len(q)

C12_Projections ==
  Prepared =>
    /\ NoRepeat(frames.customers)
    /\ AsSet(frames.customers) =
         {[customer_id |-> df[i].customer_id] : i \in {j \in Rows : df[j].customer_id # Null}}
    /\ NoRepeat(frames.products)
    /\ AsSet(frames.products) =
         {[product_id |-> df[i].product_id, product_name |-> df[i].product_name,
           category |-> df[i].category, price |-> df[i].price] :
            i \in {j \in Rows : df[j].product_id # Null}}

\* two rows with the same customer and the same product, and a row without
\* a product_id
C12_Witness ==
  /\ Prepared
  /\ Len(df) = 3
  /\ Len(frames.customers) = 1
  /\ Len(frames.products) = 1
  /\ \E i \in Rows : IsNull(df[i].product_id)

(***************************************************************************)
(* C13.  The count detector 3 reports is the number of input records whose *)
(* transaction_id also belongs to another record of the batch: all members *)
(* of a group are counted, and an id that occurs once adds nothing.        *)
(***************************************************************************)
Occurrences(id) == Cardinality({j \in 1..Len(data) : data[j].transaction_id = id})

C13_DuplicateCount ==
  Past("check3") =>
    issues["duplicate_transactions"] =
      Len(data) - Cardinality({i \in 1..Len(data) : Occurrences(data[i].transaction_id) = 1})

\* two records share "T001", a third has an id of its own: the count is 2
C13_Witness ==
  /\ Past("check3")
  /\ Len(data) = 3
  /\ Cardinality({i \in 1..Len(data) : data[i].transaction_id = Some("T001")}) = 2
  /\ \E i \in 1..Len(data) : Occurrences(data[i].transaction_id) = 1
  /\ issues["duplicate_transactions"] = 2

(***************************************************************************)
(* C14.  After the transform, has_suspicious_values of a row is true       *)
(* exactly when its quantity is above 1000, or its price is below 0.01     *)
(* (1 cent), or its total_value is above 100000 (10000000 cents): a        *)
(* quantity of 1000 and a total_value of 100000.00 do not set the flag, a  *)
(* quantity of 1001 and a total_value of 100000.01 do.                     *)
(***************************************************************************)
Above(o, n) == o # Null /\ Val(o) > n

Below(o, n) == o # Null /\ Val(o) < n

C14_Suspicious ==
  Transformed =>
    \A i \in Rows :
      df[i].has_suspicious_values =
        (Above(df[i].quantity, 1000) \/ Below(df[i].price, 1)
           \/ Above(df[i].total_value, 10000000))

\* the four boundary values in one frame
C14_Witness ==
  /\ Transformed
  /\ \E i \in Rows : /\ df[i].quantity = Some(1000)
                     /\ df[i].total_value = Some(10000000)
                     /\ ~df[i].has_suspicious_values
  /\ \E i \in Rows : /\ df[i].quantity = Some(1001)
                     /\ ~Above(df[i].total_value, 10000000)
                     /\ df[i].has_suspicious_values
  /\ \E i \in Rows : /\ df[i].total_value = Some(10000001)
                     /\ ~Above(df[i].quantity, 1000)
                     /\ df[i].has_suspicious_values

(***************************************************************************)
(* C15.  When the pipeline is executed twice in a row on the same input    *)
(* and the environment never fails (the server is reachable and the store  *)
(* accepts every write), a first execution that returned True is followed  *)
(* by a second that returns True too and leaves the same row count in      *)
(* every table and the same number of stored rows under every flag.        *)
(***************************************************************************)
C15_Idempotent ==
  (run = 2 /\ pc \in {"done", "raised"} /\ ~fault /\ history[1].result = Some(TRUE)) =>
    /\ result = Some(TRUE)
    /\ Outcome.rows = history[1].rows
    /\ Outcome.flags = history[1].flags

(***************************************************************************)
(* C16.  The engine of the load is disposed at most once; while the load   *)
(* prepares the projections or writes a table the engine is open and not   *)
(* yet disposed; once the load has returned, an engine that was acquired   *)
(* has been disposed exactly once, whether the load succeeded, a chunk was *)
(* rejected or the projections could not be prepared; without an engine    *)
(* nothing is disposed.                                                    *)
(***************************************************************************)
Loading == pc \in {"prepare", "customers", "products", "transactions", "finish"}

C16_EngineDisposed ==
  /\ disposals <= 1
  /\ Loading => engine = "open" /\ disposals = 0
  /\ ~Loading => engine # "open"
  /\ engine = "none" => disposals = 0
  /\ engine = "disposed" => disposals = 1
  /\ success = Some(TRUE) => engine = "disposed"
  /\ Rejected => engine = "disposed"
  /\ (success = Some(FALSE) /\ PrepareRaises(cols) /\ Len(stages) >= 4 /\ ~fault)
       => engine = "disposed"

\* a chunk was written, the next one was rejected, and run has returned
C16_Witness ==
  /\ pc = "done"
  /\ \E k \in 1..Len(log) : log[k].ok
  /\ Rejected
  /\ engine = "disposed"
  /\ disposals = 1

(***************************************************************************)
(* C17.  _initial_prep never raises, whatever product data the records     *)
(* lack; in the frame it returns, product_id, product_name, category and   *)
(* price are null in the row of every record whose product has no such     *)
(* key, and there is no product column left.                               *)
(***************************************************************************)
Lacks(rec, k) == rec.product.shape # "dict" \/ k \notin rec.product.keys

C17_MissingProductData ==
  /\ (pc = "raised" /\ data # <<>>) => df # <<>>
  /\ df # <<>> =>
       /\ "product" \notin cols
       /\ \A i \in Rows :
            /\ Lacks(data[i], "id") => df[i].product_id = Null
            /\ Lacks(data[i], "name") => df[i].product_name = Null
            /\ Lacks(data[i], "category") => df[i].category = Null
            /\ Lacks(data[i], "price") => df[i].price = Null

(***************************************************************************)
(* C18.  A call of standardize_date never ends in an exception; what it    *)
(* returns is null or a string of the form YYYY-MM-DD; a null argument     *)
(* gives null; "2023-07-22" gives "2023-07-22", "20 23-07-22" gives        *)
(* "2023-07-22" and "not a date" gives null.                               *)
(***************************************************************************)
Canonical(c) ==
  /\ Len(c) = 10
  /\ c[5] = "-" /\ c[8] = "-"
  /\ \A k \in {1, 2, 3, 4, 6, 7, 9, 10} : IsDigit(c[k])

Date20230722 == <<"2", "0", "2", "3", "-", "0", "7", "-", "2", "2">>

C18_StandardizeDate ==
  /\ pc # "raised"
  /\ pc = "date_done" =>
       /\ date_out.value = Null \/ Canonical(Val(date_out.value))
       /\ date_in.value = Null => date_out.value = Null
       /\ date_in.value = Some(Date20230722) => date_out.value = Some(Date20230722)
       /\ date_in.value = Some(DateSplit) => date_out.value = Some(Date20230722)
       /\ date_in.value = Some(DateBad) => date_out.value = Null

(***************************************************************************)
(* C19.  A step of detector 3, 4, 5 or 7 leaves the rows of the frame,     *)
(* with all their fields and flags, and the columns as they were, and the  *)
(* only count it may change is its own.                                    *)
(***************************************************************************)
CountOf(p) ==
  CASE p = "check3" -> "duplicate_transactions"
    [] p = "check4" -> "missing_product_info"
    [] p = "check5" -> "invalid_prices"
    [] p = "check7" -> "missing_transaction_ids"

DiagnosticStep ==
  pc \in {"check3", "check4", "check5", "check7"} =>
    /\ df' = df
    /\ cols' = cols
    /\ \A k \in DOMAIN issues : k # CountOf(pc) => issues'[k] = issues[k]
    /\ UNCHANGED <<data, frames, store, log>>

Ids(q, col) == {q[k][col] : k \in 1..Len(q)}

C20_ReferentialIntegrity ==
  /\ Prepared =>
       /\ Ids(frames.transactions, "customer_id") \subseteq Ids(frames.customers, "customer_id")
       /\ Ids(frames.transactions, "product_id") \ {Null}
            \subseteq Ids(frames.products, "product_id")
  /\ \A m \in Calls("transactions") :
       /\ Ids(log[m].rows, "customer_id")
            \subseteq Ids(Written("customers", m - 1), "customer_id")
       /\ Ids(log[m].rows, "product_id") \ {Null}
            \subseteq Ids(Written("products", m - 1), "product_id")

\* a successful run whose transactions refer to a product and, in another
\* row, to none
C20_Witness ==
  /\ pc = "done"
  /\ result = Some(TRUE)
  /\ Len(store.transactions) = 3
  /\ Len(store.products) >= 1
  /\ \E k \in 1..3 : store.transactions[k].product_id = Null
  /\ \E k \in 1..3 : store.transactions[k].product_id # Null

(***************************************************************************)
(* C21.  No two rows of the products projection have the same product_id,  *)
(* whatever names, categories and prices the input gives for one           *)
(* product_id.                                                             *)
(***************************************************************************)
C21_ProductKey ==
  Prepared =>
    \A a, b \in 1..Len(frames.products) :
      frames.products[a].product_id = frames.products[b].product_id => a = b

(***************************************************************************)
(* C22.  The flags and repaired fields of an output row are those the      *)
(* same record gets in any other batch: for every transformed row and      *)
(* every batch of one or two records that holds the row's record and that  *)
(* the transform gets through, the row of that record in the other batch   *)
(* agrees on has_missing_customer, had_negative_quantity,                  *)
(* had_date_format_issue, has_suspicious_values, quantity, customer_id     *)
(* and total_value.                                                        *)
(***************************************************************************)
Local(row) ==
  [has_missing_customer  |-> row.has_missing_customer,
   had_negative_quantity |-> row.had_negative_quantity,
   had_date_format_issue |-> row.had_date_format_issue,
   has_suspicious_values |-> row.has_suspicious_values,
   quantity              |-> row.quantity,
   customer_id           |-> row.customer_id,
   total_value           |-> row.total_value]

OtherBatches == {b \in Batches : Len(b) \in {1, 2}}

C22_RowLocal ==
  pc = "transformed" =>
    \A i \in Rows : \A b \in OtherBatches : \A j \in 1..Len(b) :
      (b[j] = data[i] /\ ~TransformRaises(b)) => Local(transform(b)[j]) = Local(df[i])

(***************************************************************************)
(* C23.  Every call of create_connection comes to an end by returning a    *)
(* connection or None, whatever the server answers.                        *)
(***************************************************************************)
C23_Terminates == <>(pc = "returned" /\ connection.called)

====
